---- MODULE Spec2Model ----
(***************************************************************************)
(* The p2p orchestration actor of crates/services/p2p/src/service.rs:      *)
(* the Task event loop (Task::run), its command protocol (TaskRequest)     *)
(* and the SharedState facade that feeds the bounded command channel.      *)
(***************************************************************************)
EXTENDS Integers, Sequences, FiniteSets, TLC

\* ------------------------------------------------------------------ bounds
\* Number of inputs in one behaviour: SharedState method calls, and events the
\* network engine raises on its own (gossip, peer updates, requests of
\* remote peers).
MaxInputs == 2
\* Number of heights the block importer yields in one behaviour.
MaxImports == 1
\* Config::max_headers_per_request (a configuration value).
MaxHeadersPerRequest == 2
\* Commands the Task drains in a behaviour that starts from a filled queue.
MaxDrain == 2
\* Number of receivers subscribe_tx hands out in one behaviour.
MaxSubscribers == 2
\* Number of SharedState handles alive outside the Task at one time.
MaxClones == 2

\* mpsc::channel(100): the capacity of the command channel.
CommandChannelCapacity == 100

\* broadcast::channel(100): the capacity asked for the gossip channel.
BroadcastChannelCapacity == 100

\* ------------------------------------------------------------------ values
NoRange == <<0, 0>>
NoPeer == 0

\* Peer identities as byte strings: 0 stands for a byte string that is no
\* multihash, 1 for the encoding of a peer.
PeerBytes == {0, 1}
Peers == {1}

\* Half-open height ranges start..end handed to the sealed-headers calls:
\* empty (start = end), empty (start > end), of the maximal length, one longer.
Ranges ==
  { <<0, 0>>, <<1, 0>>, <<0, MaxHeadersPerRequest>>, <<0, MaxHeadersPerRequest + 1>> }

\* ExactSizeIterator::len of a Range<u32>.
RangeLen(r) == IF r[1] < r[2] THEN r[2] - r[1] ELSE 0

\* Range::is_empty.
RangeIsEmpty(r) == ~(r[1] < r[2])

\* PeerId::from_bytes / Vec<u8>::try_into: the parsed peer, or an error.
PeerIdFromBytes(b) ==
  IF b \in Peers THEN [ok |-> TRUE, peer |-> b] ELSE [ok |-> FALSE, peer |-> NoPeer]

QueryKinds ==
  {"GetPeerIds", "GetBlock", "GetSealedHeaders", "GetTransactions",
   "GetTransactions2", "SelectPeer"}
BroadcastKinds == {"BroadcastTransaction", "BroadcastBlock", "BroadcastVote"}
ReportKinds == {"RespondWithGossipsubMessageReport", "RespondWithPeerReport"}
RequestKinds == {"Block", "Transactions", "Transactions2", "SealedHeaders"}

\* A TaskRequest: id names the call that made it (and its one-shot channel).
Command(kind, id, peer, range) ==
  [kind |-> kind, id |-> id, peer |-> peer, range |-> range]

\* One effect of the Task on its collaborators.
Effect(op, kind, rid, val, range) ==
  [op |-> op, kind |-> kind, rid |-> rid, val |-> val, range |-> range]

VARIABLES
  calls,          \* the SharedState calls made so far and their reply channels
  returned,       \* what the latest call to finish gave back to its caller
  queue,          \* the command channel (request_sender -> request_receiver)
  taskPc,         \* "run", "returned_false", "returned_err", "panicked", "dropped"
  shouldContinue, \* what the last iteration of run returned
  shutdownSignal, \* the StateWatcher left the started state
  events,         \* events the network engine has ready for next_event()
  emitted,        \* number of events the engine emitted on its own
  outbound,       \* calls whose reply channel sits in the engine's request table
  importer,       \* the next_block_height stream: "pending", "ready", "exhausted"
  imported,       \* number of heights the importer yielded
  effects,        \* the effects of the latest iteration of run, in order
  tx_broadcast,   \* the transaction-gossip broadcast channel
  tx_receivers,   \* the receivers subscribe_tx handed out
  block_height_broadcast, \* the block-height heartbeat broadcast channel
  block_height_receivers, \* the receivers subscribe_block_height handed out
  peers_ids,      \* the peers the network engine is connected to
  shared_clones   \* number of SharedState handles outside the Task

vars ==
  <<calls, returned, queue, taskPc, shouldContinue, shutdownSignal, events,
    emitted, outbound, importer, imported, effects, tx_broadcast, tx_receivers,
    block_height_broadcast, block_height_receivers,
    peers_ids, shared_clones>>

\* ------------------------------------------------------------------ helpers
\* A call awaiting its reply. chan is the caller's one-shot channel: "open"
\* (the sending half is alive), "value" (a value was sent), "closed" (the
\* sending half was dropped without a value). replies counts the values sent.
Awaiting(kind, peerBytes, range) ==
  [kind |-> kind, peer |-> peerBytes, range |-> range, pc |-> "awaiting",
   chan |-> "open", value |-> "none", replies |-> 0]

\* A call that has returned: only its channel is remembered.
Finished(chan, replies) ==
  [kind |-> "none", peer |-> NoPeer, range |-> NoRange, pc |-> "done",
   chan |-> chan, value |-> "none", replies |-> replies]

\* What a call gave back: result is "ok", "reply" (with the value), one of
\* the errors "err_empty_range", "err_peer_id", "err_full", "err_send_closed",
\* "err_recv_closed", or "panic".
Return(id, kind, peerBytes, range, result, value) ==
  [id |-> id, kind |-> kind, peer |-> peerBytes, range |-> range,
   result |-> result, value |-> value]

NoReturn == Return(0, "none", NoPeer, NoRange, "none", "none")

\* The behaviour has room for one more input.
InputLeft == Len(calls) + emitted < MaxInputs

\* Nothing is sent on, read from or subscribed to the broadcast channel.
\* The heartbeat channel and its receivers are left alone.
HeartbeatUnchanged == UNCHANGED <<block_height_broadcast, block_height_receivers>>

GossipUnchanged ==
  /\ UNCHANGED <<tx_broadcast, tx_receivers>>
  /\ HeartbeatUnchanged

\* No peer connects to or disconnects from the network engine.
PeersUnchanged == UNCHANGED peers_ids

\* No SharedState handle is cloned or dropped.
SendersUnchanged == UNCHANGED shared_clones

TaskUnchanged ==
  /\ UNCHANGED <<taskPc, shouldContinue, shutdownSignal, events, emitted, outbound,
                 importer, imported, effects>>
  /\ GossipUnchanged
  /\ PeersUnchanged
  /\ SendersUnchanged

\* The call ends at once: with Ok(()), an Err value or a panic.
Returns(kind, peerBytes, range, result) ==
  /\ calls' = Append(calls, Finished("none", 0))
  /\ returned' = Return(Len(calls) + 1, kind, peerBytes, range, result, "none")

\* The receiving half of the command channel is gone once the Task is dropped.
ReceiverDropped == taskPc = "dropped"

\* request_sender.send(cmd).await? followed by the await of the reply: the
\* send completes when the channel has room, or fails when it is closed.
SendAwait(kind, peerBytes, peer, range) ==
  IF ReceiverDropped
    THEN /\ Returns(kind, peerBytes, range, "err_send_closed")
         /\ UNCHANGED queue
    ELSE /\ Len(queue) < CommandChannelCapacity
         /\ queue' = Append(queue, Command(kind, Len(calls) + 1, peer, range))
         /\ calls' = Append(calls, Awaiting(kind, peerBytes, range))
         /\ UNCHANGED returned

\* request_sender.try_send(cmd)?; Ok(()): never suspends.
TrySend(kind, peerBytes, peer) ==
  IF ReceiverDropped
    THEN /\ Returns(kind, peerBytes, NoRange, "err_send_closed")
         /\ UNCHANGED queue
    ELSE IF Len(queue) >= CommandChannelCapacity
    THEN /\ Returns(kind, peerBytes, NoRange, "err_full")
         /\ UNCHANGED queue
    ELSE /\ Returns(kind, peerBytes, NoRange, "ok")
         /\ queue' = Append(queue, Command(kind, Len(calls) + 1, peer, NoRange))

\* The call ends before anything is sent: an Err value or a panic.
Rejected(kind, peerBytes, range, result) ==
  /\ Returns(kind, peerBytes, range, result)
  /\ UNCHANGED queue

\* ------------------------------------------------------------------ SharedState
notify_gossip_transaction_validity ==
  /\ InputLeft
  /\ TrySend("RespondWithGossipsubMessageReport", NoPeer, NoPeer)
  /\ TaskUnchanged

get_block ==
  /\ InputLeft
  /\ SendAwait("GetBlock", NoPeer, NoPeer, NoRange)
  /\ TaskUnchanged

select_peer ==
  /\ InputLeft
  /\ SendAwait("SelectPeer", NoPeer, NoPeer, NoRange)
  /\ TaskUnchanged

\* get_sealed_block_headers with a test of the range length added.
get_sealed_block_headers_checks_length ==
  /\ InputLeft
  /\ \E b \in PeerBytes, r \in Ranges :
       LET from_peer == PeerIdFromBytes(b) IN
       IF ~from_peer.ok
         THEN Rejected("GetSealedHeaders", b, r, "panic")
       ELSE IF RangeIsEmpty(r)
         THEN Rejected("GetSealedHeaders", b, r, "err_empty_range")
       ELSE IF RangeLen(r) > MaxHeadersPerRequest
         THEN Rejected("GetSealedHeaders", b, r, "err_range_too_long")
       ELSE SendAwait("GetSealedHeaders", b, from_peer.peer, r)
  /\ TaskUnchanged

\* from_bytes(..).expect("Valid PeerId") comes first, then the empty-range
\* test, then the send.
get_sealed_block_headers ==
  /\ InputLeft
  /\ \E b \in PeerBytes, r \in Ranges :
       LET from_peer == PeerIdFromBytes(b) IN
       IF ~from_peer.ok
         THEN Rejected("GetSealedHeaders", b, r, "panic")
       ELSE IF RangeIsEmpty(r)
         THEN Rejected("GetSealedHeaders", b, r, "err_empty_range")
       ELSE SendAwait("GetSealedHeaders", b, from_peer.peer, r)
  /\ TaskUnchanged

get_transactions_from_peer ==
  /\ InputLeft
  /\ \E b \in PeerBytes :
       LET from_peer == PeerIdFromBytes(b) IN
       IF ~from_peer.ok
         THEN Rejected("GetTransactions", b, NoRange, "panic")
       ELSE SendAwait("GetTransactions", b, from_peer.peer, NoRange)
  /\ TaskUnchanged

get_transactions_2_from_peer ==
  /\ InputLeft
  /\ \E b \in PeerBytes :
       LET from_peer == PeerIdFromBytes(b) IN
       IF ~from_peer.ok
         THEN Rejected("GetTransactions2", b, NoRange, "panic")
       ELSE SendAwait("GetTransactions2", b, from_peer.peer, NoRange)
  /\ TaskUnchanged

\* broadcast_vote with send(..).await in the place of try_send.
broadcast_vote_blocking ==
  /\ InputLeft
  /\ ~ReceiverDropped
  /\ Len(queue) < CommandChannelCapacity
  /\ TrySend("BroadcastVote", NoPeer, NoPeer)
  /\ TaskUnchanged

broadcast_vote ==
  /\ InputLeft
  /\ TrySend("BroadcastVote", NoPeer, NoPeer)
  /\ TaskUnchanged

broadcast_block ==
  /\ InputLeft
  /\ TrySend("BroadcastBlock", NoPeer, NoPeer)
  /\ TaskUnchanged

broadcast_transaction ==
  /\ InputLeft
  /\ TrySend("BroadcastTransaction", NoPeer, NoPeer)
  /\ TaskUnchanged

get_peer_ids ==
  /\ InputLeft
  /\ SendAwait("GetPeerIds", NoPeer, NoPeer, NoRange)
  /\ TaskUnchanged

\* Vec::from(peer_id).try_into() is matched: an Err value, never a panic.
report_peer ==
  /\ InputLeft
  /\ \E b \in PeerBytes :
       LET peer_id == PeerIdFromBytes(b) IN
       IF peer_id.ok
         THEN TrySend("RespondWithPeerReport", b, peer_id.peer)
         ELSE Rejected("RespondWithPeerReport", b, NoRange, "err_peer_id")
  /\ TaskUnchanged

\* receiver.await.map_err(..): the caller resumes with the value sent on its
\* one-shot channel, or with an error once the sending half was dropped.
ReceiverAwait ==
  /\ \E id \in 1..Len(calls) :
       /\ calls[id].pc = "awaiting"
       /\ calls[id].chan \in {"value", "closed"}
       /\ calls' = [calls EXCEPT ![id] = Finished(calls[id].chan, calls[id].replies)]
       /\ returned' =
            Return(id, calls[id].kind, calls[id].peer, calls[id].range,
                   IF calls[id].chan = "value" THEN "reply" ELSE "err_recv_closed",
                   calls[id].value)
  /\ UNCHANGED queue
  /\ TaskUnchanged

\* The caller of a query gives up (a timeout, a cancelled future): the
\* receiving half of its one-shot channel is dropped with it.
AbandonCall ==
  /\ \E id \in 1..Len(calls) :
       /\ calls[id].pc = "awaiting"
       /\ calls' = [calls EXCEPT ![id] = Finished("rx_dropped", calls[id].replies)]
  /\ UNCHANGED <<returned, queue>>
  /\ TaskUnchanged

\* ------------------------------------------------------------------ channels
\* oneshot::Sender::send on the channel of call id: the value is stored for
\* the receiver, or, when the receiving half was dropped ("rx_dropped"),
\* handed back in an Err and nothing changes.
ChanSend(cs, id, v) ==
  IF cs[id].chan = "rx_dropped" THEN cs
  ELSE [cs EXCEPT ![id].chan = "value", ![id].value = v,
                  ![id].replies = cs[id].replies + 1]

\* What oneshot::Sender::send returns.
ChanSendResult(cs, id) == IF cs[id].chan = "rx_dropped" THEN "err" ELSE "ok"

\* The sending halves of the calls in ids are dropped without a value.
ChanDrop(cs, ids) ==
  [i \in 1..Len(cs) |->
     IF i \in ids /\ cs[i].chan = "open" THEN [cs[i] EXCEPT !.chan = "closed"]
     ELSE cs[i]]

\* The calls whose reply channel travels in a queued command.
QueuedIds(q) == { q[i].id : i \in { j \in 1..Len(q) : q[j].kind \in QueryKinds } }

\* ------------------------------------------------------------------ broadcast
\* usize::next_power_of_two.
RECURSIVE PowerOfTwoFrom(_, _)
PowerOfTwoFrom(p, n) == IF p >= n THEN p ELSE PowerOfTwoFrom(2 * p, n)
NextPowerOfTwo(n) == PowerOfTwoFrom(1, n)

\* broadcast::channel(100) allocates a ring of next_power_of_two(100) slots:
\* that many of the latest messages are retained, which is at least the 100
\* that were asked for.
BroadcastBuffer == NextPowerOfTwo(BroadcastChannelCapacity)

\* The channel: tail counts the messages stored so far, buf holds the ones
\* retained, the message stored as number n being buf[n - (tail - Len(buf))].
NewChannel == [tail |-> 0, buf |-> <<>>]

\* The number of the oldest message the channel retains (tail + 1 when none).
ChannelHead(ch) == ch.tail - Len(ch.buf) + 1

\* GossipData::new(transaction, peer_id, message_id).
GossipData(peer, message_id) == [peer_id |-> peer, message_id |-> message_id]

\* broadcast::Sender::send: fails, storing nothing, when there is no
\* receiver; otherwise stores the value, which overwrites the oldest one once
\* the ring is full. No receiver is waited for.
BroadcastSend(ch, receivers, value) ==
  IF receivers = <<>>
    THEN [result |-> "err", chan |-> ch]
    ELSE [result |-> "ok",
          chan |-> [tail |-> ch.tail + 1,
                    buf |-> IF Len(ch.buf) < BroadcastBuffer
                              THEN Append(ch.buf, value)
                              ELSE Append(Tail(ch.buf), value)]]

\* A receiver: start and next are the numbers of the first message it can
\* ever see and of the one it reads next; got is what its last recv gave.
Receiver(start, next, got) == [start |-> start, next |-> next, got |-> got]

\* BlockHeightHeartbeatData { peer_id, block_height }.
BlockHeightHeartbeatData(peer, block_height) ==
  [peer_id |-> peer, block_height |-> block_height]

\* What a recv gave: nothing yet, Err(Lagged), or Ok(value).
NoValue == [peer_id |-> NoPeer]
NothingGot == [kind |-> "none", value |-> NoValue]
Lagged == [kind |-> "lagged", value |-> NoValue]
Got(value) == [kind |-> "value", value |-> value]

\* broadcast::Sender::subscribe: the new receiver sees the messages sent
\* after this call.
subscribe_tx ==
  /\ Len(tx_receivers) < MaxSubscribers
  /\ tx_receivers' =
       Append(tx_receivers,
              Receiver(tx_broadcast.tail + 1, tx_broadcast.tail + 1, NothingGot))
  /\ UNCHANGED <<calls, returned, queue, taskPc, shouldContinue, shutdownSignal,
                 events, emitted, outbound, importer, imported, effects,
                 tx_broadcast, peers_ids, shared_clones>>
  /\ HeartbeatUnchanged

\* broadcast::Receiver::recv with a message to return: Err(Lagged) when the
\* next message of this receiver has been overwritten (it goes on from the
\* oldest retained one), else the next message.
BroadcastRecv(ch, rx) ==
  IF rx.next < ChannelHead(ch)
    THEN Receiver(rx.start, ChannelHead(ch), Lagged)
    ELSE Receiver(rx.start, rx.next + 1, Got(ch.buf[rx.next - ChannelHead(ch) + 1]))

\* subscribe_block_height: a receiver of the heartbeats sent from now on.
subscribe_block_height ==
  /\ Len(block_height_receivers) < MaxSubscribers
  /\ block_height_receivers' =
       Append(block_height_receivers,
              Receiver(block_height_broadcast.tail + 1,
                       block_height_broadcast.tail + 1, NothingGot))
  /\ UNCHANGED <<calls, returned, queue, taskPc, shouldContinue, shutdownSignal,
                 events, emitted, outbound, importer, imported, effects,
                 tx_broadcast, tx_receivers, block_height_broadcast, peers_ids,
                 shared_clones>>

\* A subscriber takes the next item off its heartbeat receiver.
BlockHeightRecv ==
  /\ \E i \in 1..Len(block_height_receivers) :
       /\ block_height_receivers[i].next <= block_height_broadcast.tail
       /\ block_height_receivers' =
            [block_height_receivers EXCEPT
               ![i] = BroadcastRecv(block_height_broadcast, block_height_receivers[i])]
  /\ UNCHANGED <<calls, returned, queue, taskPc, shouldContinue, shutdownSignal,
                 events, emitted, outbound, importer, imported, effects,
                 tx_broadcast, tx_receivers, block_height_broadcast, peers_ids,
                 shared_clones>>

\* A subscriber takes the next item off its receiver.
TxRecv ==
  /\ \E i \in 1..Len(tx_receivers) :
       /\ tx_receivers[i].next <= tx_broadcast.tail
       /\ tx_receivers' =
            [tx_receivers EXCEPT ![i] = BroadcastRecv(tx_broadcast, tx_receivers[i])]
  /\ UNCHANGED <<calls, returned, queue, taskPc, shouldContinue, shutdownSignal,
                 events, emitted, outbound, importer, imported, effects,
                 tx_broadcast, peers_ids, shared_clones>>
  /\ HeartbeatUnchanged

\* ------------------------------------------------------------------ engine
\* A FuelP2PEvent. rid is the request id of a remote peer's request or the
\* message id of a gossip message, peer the peer a gossip message or a peer
\* update came from, id the call a response answers.
Event(kind, rid, range, id, val, peer) ==
  [kind |-> kind, rid |-> rid, range |-> range, id |-> id, val |-> val,
   peer |-> peer]

GossipKinds == {"NewTx", "NewBlock", "ConsensusVote"}

OwnEventKinds ==
  {"PeerInfoUpdated", "NewTx", "NewBlock", "ConsensusVote",
   "Block", "Transactions", "Transactions2", "SealedHeaders"}

EngineAlive == taskPc # "dropped"

\* The engine has an event of its own ready: a peer update, a gossip message
\* or the request of a remote peer (with a fresh request id).
NetworkEmit ==
  /\ EngineAlive
  /\ InputLeft
  /\ \E k \in OwnEventKinds :
       \E r \in (IF k = "SealedHeaders" THEN Ranges ELSE {NoRange}) :
         \E p \in (IF k \in GossipKinds \cup {"PeerInfoUpdated"} THEN Peers ELSE {NoPeer}) :
           events' = Append(events, Event(k, emitted + 1, r, 0, "none", p))
  /\ emitted' = emitted + 1
  /\ UNCHANGED <<calls, returned, queue, taskPc, shouldContinue, shutdownSignal, outbound,
                 importer, imported, effects>>
  /\ GossipUnchanged
  /\ PeersUnchanged
  /\ SendersUnchanged

\* The exchange of an outbound request ends: the peer answered with a value,
\* answered with nothing, or the exchange failed.
NetworkResponse ==
  /\ EngineAlive
  /\ \E id \in outbound :
       /\ \A i \in 1..Len(events) : ~(events[i].kind = "Response" /\ events[i].id = id)
       /\ \E v \in {"Some", "None", "Failure"} :
            events' = Append(events, Event("Response", 0, NoRange, id, v, NoPeer))
  /\ UNCHANGED <<calls, returned, queue, taskPc, shouldContinue, shutdownSignal, emitted,
                 outbound, importer, imported, effects>>
  /\ GossipUnchanged
  /\ PeersUnchanged
  /\ SendersUnchanged

\* send_request_msg(peer, request, channel_item): the channel is stored in
\* the table of outbound requests, or the call fails and the channel it was
\* given is dropped.
SendRequestMsg(cs, out, id, result) ==
  IF result = "ok"
    THEN [calls |-> cs, outbound |-> out \cup {id}]
    ELSE [calls |-> ChanDrop(cs, {id}), outbound |-> out]

\* next_event() on a response: the channel recorded for the request is looked
\* up, removed and fulfilled (dropped when the exchange failed).
DeliverResponse(cs, out, ev) ==
  [calls |-> IF ev.val = "Failure" THEN ChanDrop(cs, {ev.id})
             ELSE ChanSend(cs, ev.id, ev.val),
   outbound |-> out \ {ev.id}]

\* A peer connects to the engine or disconnects from it.
PeerSetChanges ==
  /\ EngineAlive
  /\ \E p \in Peers :
       peers_ids' = IF p \in peers_ids THEN peers_ids \ {p} ELSE peers_ids \cup {p}
  /\ UNCHANGED <<calls, returned, queue, taskPc, shouldContinue, shutdownSignal,
                 events, emitted, outbound, importer, imported, effects>>
  /\ GossipUnchanged
  /\ SendersUnchanged

\* ------------------------------------------------------------------ importer
ImporterYield ==
  /\ importer = "pending"
  /\ imported < MaxImports
  /\ importer' = "ready"
  /\ imported' = imported + 1
  /\ UNCHANGED <<calls, returned, queue, taskPc, shouldContinue, shutdownSignal, events,
                 emitted, outbound, effects>>
  /\ GossipUnchanged
  /\ PeersUnchanged
  /\ SendersUnchanged

ImporterEnd ==
  /\ importer = "pending"
  /\ importer' = "exhausted"
  /\ UNCHANGED <<calls, returned, queue, taskPc, shouldContinue, shutdownSignal, events,
                 emitted, outbound, imported, effects>>
  /\ GossipUnchanged
  /\ PeersUnchanged
  /\ SendersUnchanged

\* The owner of the service asks it to stop.
SignalShutdown ==
  /\ ~shutdownSignal
  /\ shutdownSignal' = TRUE
  /\ UNCHANGED <<calls, returned, queue, taskPc, shouldContinue, events, emitted, outbound,
                 importer, imported, effects>>
  /\ GossipUnchanged
  /\ PeersUnchanged
  /\ SendersUnchanged

\* ------------------------------------------------------------------ Task::run
\* The service runner calls run again as long as the last call returned
\* Ok(true).
LoopEntered == taskPc = "run"

\* tokio::select! { biased; .. }: the branches are polled in the order they
\* are written and the first one that is ready is taken.
ShutdownBranch == shutdownSignal
\* The command branch of a select! that is not biased: taken whenever a
\* command is queued, whatever the shutdown signal says.
CommandBranch_Unbiased == queue # <<>>

\* A Task built without a sender of its own.
TaskHoldsSender_Not == FALSE

\* Task::new puts request_sender into the SharedState the Task keeps.
TaskHoldsSender == TRUE

\* The sending halves of the command channel that are alive.
LiveSenders ==
  shared_clones + (IF TaskHoldsSender /\ taskPc # "dropped" THEN 1 ELSE 0)

\* request_receiver.recv() is ready: with a command, or with None once the
\* queue is empty and every sending half is gone.
RecvReady == queue # <<>> \/ LiveSenders = 0

CommandBranch == ~shutdownSignal /\ RecvReady

\* The event branch of a select! that polls next_event before recv.
EventBranch_BeforeCommands == ~shutdownSignal /\ events # <<>>

EventBranch == ~shutdownSignal /\ ~RecvReady /\ events # <<>>
HeightBranch ==
  ~shutdownSignal /\ ~RecvReady /\ events = <<>> /\ importer # "pending"

\* What run gives back: Ok(true), Ok(false), Err(e), or it panics.
Returned(v) ==
  /\ shouldContinue' = v
  /\ taskPc' = CASE v = "true" -> "run"
                 [] v = "false" -> "returned_false"
                 [] v = "err" -> "returned_err"
                 [] OTHER -> "panicked"

\* The shutdown branch leaving should_continue = true.
RunShutdown_Continues ==
  /\ LoopEntered
  /\ ShutdownBranch
  /\ Returned("true")
  /\ effects' = <<>>
  /\ UNCHANGED <<calls, returned, queue, shutdownSignal, events, emitted,
                 outbound, importer, imported>>
  /\ GossipUnchanged
  /\ PeersUnchanged
  /\ SendersUnchanged

\* _ = watcher.while_started() => should_continue = false
RunShutdown ==
  /\ LoopEntered
  /\ ShutdownBranch
  /\ Returned("false")
  /\ effects' = <<>>
  /\ UNCHANGED <<calls, returned, queue, shutdownSignal, events, emitted,
                 outbound, importer, imported>>
  /\ GossipUnchanged
  /\ PeersUnchanged
  /\ SendersUnchanged

\* The Broadcast* arms with the publish error returned by `?`.
HandleBroadcast_Propagates(cmd) ==
  /\ \E result \in {"ok", "err"} :
       /\ effects' = << Effect("publish_message", cmd.kind, cmd.id, result, NoRange) >>
       /\ Returned(IF result = "err" THEN "err" ELSE "true")
  /\ UNCHANGED <<calls, outbound>>

\* The Broadcast* arms: publish_message, whose error is only logged.
HandleBroadcast(cmd) ==
  /\ \E result \in {"ok", "err"} :
       effects' = << Effect("publish_message", cmd.kind, cmd.id, result, NoRange) >>
  /\ Returned("true")
  /\ UNCHANGED <<calls, outbound>>

\* get_peers_ids().copied().collect(): the Vec of the connected peers, as
\* a value that can travel on a reply channel.
PeerIdsValue(ids) == IF 1 \in ids THEN "PeerIds[1]" ELSE "PeerIds[]"

\* The GetPeerIds arm answering with an empty list, whoever is connected.
HandleGetPeerIds_Empty(cmd) ==
  /\ calls' = ChanSend(calls, cmd.id, PeerIdsValue({}))
  /\ effects' = << Effect("reply", cmd.kind, cmd.id, PeerIdsValue({}), NoRange) >>
  /\ Returned("true")
  /\ UNCHANGED outbound

\* The GetPeerIds arm with the Result of channel.send returned by `?`-style
\* handling: a reply nobody waits for ends run with an error.
HandleGetPeerIds_SendChecked(cmd) ==
  /\ calls' = ChanSend(calls, cmd.id, PeerIdsValue(peers_ids))
  /\ effects' = << Effect("reply", cmd.kind, cmd.id, PeerIdsValue(peers_ids), NoRange) >>
  /\ Returned(IF ChanSendResult(calls, cmd.id) = "err" THEN "err" ELSE "true")
  /\ UNCHANGED outbound

\* The GetPeerIds arm.
HandleGetPeerIds(cmd) ==
  /\ calls' = ChanSend(calls, cmd.id, PeerIdsValue(peers_ids))
  /\ effects' = << Effect("reply", cmd.kind, cmd.id, PeerIdsValue(peers_ids), NoRange) >>
  /\ Returned("true")
  /\ UNCHANGED outbound

\* peer_manager().get_peer_id_with_height(&height): Some(peer) or None.
PeerOpt(peer) == IF peer = NoPeer THEN "None" ELSE "Some"

\* What the Task asked the peer manager in the GetBlock and SelectPeer arms.
PeerLookup(cmd, peer) ==
  Effect("get_peer_id_with_height", cmd.kind, cmd.id, PeerOpt(peer), NoRange)

\* The GetBlock arm answering None itself when the peer manager has no peer.
HandleRequest_RepliesNoneWithoutPeer(cmd) ==
  /\ \E peer \in (IF cmd.kind = "GetBlock" THEN Peers \cup {NoPeer} ELSE {cmd.peer}) :
       IF peer = NoPeer
         THEN /\ calls' = ChanSend(calls, cmd.id, "None")
              /\ outbound' = outbound
              /\ effects' = << PeerLookup(cmd, peer),
                               Effect("reply", cmd.kind, cmd.id, "None", NoRange) >>
         ELSE \E result \in {"ok", "err"} :
                LET sent == SendRequestMsg(calls, outbound, cmd.id, result) IN
                /\ calls' = sent.calls
                /\ outbound' = sent.outbound
                /\ effects' =
                     (IF cmd.kind = "GetBlock" THEN << PeerLookup(cmd, peer) >> ELSE <<>>)
                     \o << Effect("send_request_msg", cmd.kind, cmd.id, result, cmd.range) >>
  /\ Returned("true")

\* The arms that start an exchange with a peer, with the error of
\* send_request_msg returned by `?`.
HandleRequest_PropagatesError(cmd) ==
  /\ \E peer \in (IF cmd.kind = "GetBlock" THEN Peers \cup {NoPeer} ELSE {cmd.peer}) :
       \E result \in {"ok", "err"} :
         LET sent == SendRequestMsg(calls, outbound, cmd.id, result) IN
         /\ calls' = sent.calls
         /\ outbound' = sent.outbound
         /\ effects' =
              (IF cmd.kind = "GetBlock" THEN << PeerLookup(cmd, peer) >> ELSE <<>>)
              \o << Effect("send_request_msg", cmd.kind, cmd.id, result, cmd.range) >>
         /\ Returned(IF result = "err" THEN "err" ELSE "true")

\* The arms that start an exchange with a peer: GetBlock asks the peer
\* manager for a peer and passes on what it got, Some(peer) or None; the
\* others name one; the Result of send_request_msg is discarded.
HandleRequest(cmd) ==
  /\ \E peer \in (IF cmd.kind = "GetBlock" THEN Peers \cup {NoPeer} ELSE {cmd.peer}) :
       \E result \in {"ok", "err"} :
         LET sent == SendRequestMsg(calls, outbound, cmd.id, result) IN
         /\ calls' = sent.calls
         /\ outbound' = sent.outbound
         /\ effects' =
              (IF cmd.kind = "GetBlock" THEN << PeerLookup(cmd, peer) >> ELSE <<>>)
              \o << Effect("send_request_msg", cmd.kind, cmd.id, result, cmd.range) >>
  /\ Returned("true")

\* The RespondWith* arms: report_message and report_peer return nothing.
HandleReport(cmd) ==
  /\ effects' = << Effect("report", cmd.kind, cmd.id, "none", NoRange) >>
  /\ Returned("true")
  /\ UNCHANGED <<calls, outbound>>

\* The SelectPeer arm, with the channel put aside and never answered.
HandleSelectPeer_NoReply(cmd) ==
  /\ effects' = <<>>
  /\ Returned("true")
  /\ UNCHANGED <<calls, outbound>>

\* The SelectPeer arm.
HandleSelectPeer(cmd) ==
  /\ \E peer \in Peers \cup {NoPeer} :
       /\ calls' = ChanSend(calls, cmd.id, PeerOpt(peer))
       /\ effects' = << PeerLookup(cmd, peer),
                        Effect("reply", cmd.kind, cmd.id, PeerOpt(peer), NoRange) >>
  /\ Returned("true")
  /\ UNCHANGED outbound

HandleCommand(cmd) ==
  CASE cmd.kind \in BroadcastKinds -> HandleBroadcast(cmd)
    [] cmd.kind = "GetPeerIds" -> HandleGetPeerIds(cmd)
    [] cmd.kind \in {"GetBlock", "GetSealedHeaders", "GetTransactions",
                     "GetTransactions2"} -> HandleRequest(cmd)
    [] cmd.kind \in ReportKinds -> HandleReport(cmd)
    [] OTHER -> HandleSelectPeer(cmd)

\* The command branch taking the command that entered the queue last.
RunCommand_NewestFirst ==
  /\ LoopEntered
  /\ CommandBranch
  /\ IF queue # <<>>
       THEN /\ queue' = SubSeq(queue, 1, Len(queue) - 1)
            /\ HandleCommand(queue[Len(queue)])
       ELSE /\ queue' = queue
            /\ effects' = <<>>
            /\ Returned("panic")
            /\ UNCHANGED <<calls, outbound>>
  /\ UNCHANGED <<returned, shutdownSignal, events, emitted, importer, imported>>
  /\ GossipUnchanged
  /\ PeersUnchanged
  /\ SendersUnchanged

\* next_service_request = self.request_receiver.recv() => match ..
RunCommand ==
  /\ LoopEntered
  /\ CommandBranch
  /\ IF queue # <<>>
       THEN /\ queue' = Tail(queue)
            /\ HandleCommand(Head(queue))
       ELSE \* None => unreachable!(..)
            /\ queue' = queue
            /\ effects' = <<>>
            /\ Returned("panic")
            /\ UNCHANGED <<calls, outbound>>
  /\ UNCHANGED <<returned, shutdownSignal, events, emitted, importer, imported>>
  /\ GossipUnchanged
  /\ PeersUnchanged
  /\ SendersUnchanged

\* What the storage port may answer.
DbResults(kind) == IF kind = "SealedHeaders" THEN {"Some", "Err"}
                   ELSE {"Some", "None", "Err"}

DbCall(kind) == CASE kind = "Block" -> "get_sealed_block"
                  [] kind = "Transactions" -> "get_transactions"
                  [] OTHER -> "get_sealed_headers"

\* The lookup with the storage error only logged: run goes on.
RespondFromDb_ContinuesOnError(ev) ==
  \E res \in DbResults(ev.kind) :
    /\ effects' =
         << Effect("db", DbCall(ev.kind), ev.rid, res, ev.range),
            Effect("send_response_msg", ev.kind, ev.rid,
                   IF res = "Some" THEN "Some" ELSE "None", ev.range) >>
    /\ Returned("true")

\* The lookup whose Err arm returns the error at once, answering nothing.
RespondFromDb_SilentOnError(ev) ==
  \E res \in DbResults(ev.kind) :
    /\ effects' =
         << Effect("db", DbCall(ev.kind), ev.rid, res, ev.range) >>
         \o (IF res = "Err" THEN <<>>
             ELSE << Effect("send_response_msg", ev.kind, ev.rid,
                            IF res = "Some" THEN "Some" ELSE "None", ev.range) >>)
    /\ Returned(IF res = "Err" THEN "err" ELSE "true")

\* A storage lookup and the response built from it: the value found, None
\* when nothing was found, None and the error returned when storage failed.
RespondFromDb(ev) ==
  \E res \in DbResults(ev.kind) :
    /\ effects' =
         << Effect("db", DbCall(ev.kind), ev.rid, res, ev.range),
            Effect("send_response_msg", ev.kind, ev.rid,
                   IF res = "Some" THEN "Some" ELSE "None", ev.range) >>
    /\ Returned(IF res = "Err" THEN "err" ELSE "true")

\* The sealed-headers arm without the length test.
RespondSealedHeaders_NoLengthTest(ev) == RespondFromDb(ev)

\* The sealed-headers arm with a length test that also refuses a range of
\* exactly the maximal length.
RespondSealedHeaders_MaxRefused(ev) ==
  IF RangeLen(ev.range) >= MaxHeadersPerRequest
    THEN /\ effects' =
              << Effect("send_response_msg", ev.kind, ev.rid, "None", ev.range) >>
         /\ Returned("true")
    ELSE RespondFromDb(ev)

\* RequestMessage::SealedHeaders(range): the length test comes first.
RespondSealedHeaders(ev) ==
  IF RangeLen(ev.range) > MaxHeadersPerRequest
    THEN /\ effects' =
              << Effect("send_response_msg", ev.kind, ev.rid, "None", ev.range) >>
         /\ Returned("true")
    ELSE RespondFromDb(ev)

\* The NewTx arm written like the NewBlock arm: the envelope is built and
\* not forwarded.
HandleNewTx_NotForwarded(ev) ==
  /\ tx_broadcast' = tx_broadcast
  /\ UNCHANGED block_height_broadcast
  /\ effects' = <<>>
  /\ Returned("true")

\* GossipsubMessage::NewTx: the transaction is wrapped with the peer and the
\* message id of the event and sent on tx_broadcast; the Result of the send
\* is discarded.
HandleNewTx(ev) ==
  LET sent == BroadcastSend(tx_broadcast, tx_receivers, GossipData(ev.peer, ev.rid)) IN
  /\ tx_broadcast' = sent.chan
  /\ effects' = << Effect("tx_broadcast", ev.kind, ev.rid, sent.result, NoRange) >>
  /\ Returned("true")
  /\ UNCHANGED block_height_broadcast

\* The Transactions2 arm with the lookup that is commented out put back.
HandleTransactions2_Answers(ev) == RespondFromDb([ev EXCEPT !.kind = "Transactions"])

\* RequestMessage::Transactions2(block_ids) => todo!(): a panic.
HandleTransactions2(ev) ==
  /\ effects' = <<>>
  /\ Returned("panic")

\* The PeerInfoUpdated arm with the Result of the send returned by `?`.
HandlePeerInfoUpdated_SendChecked(ev) ==
  LET sent == BroadcastSend(block_height_broadcast, block_height_receivers,
                            BlockHeightHeartbeatData(ev.peer, ev.rid)) IN
  /\ block_height_broadcast' = sent.chan
  /\ effects' =
       << Effect("block_height_broadcast", ev.kind, ev.rid, sent.result, NoRange) >>
  /\ Returned(IF sent.result = "err" THEN "err" ELSE "true")

\* FuelP2PEvent::PeerInfoUpdated: the peer and its height (the number of the
\* event stands for it) are sent on block_height_broadcast; the Result of the
\* send is discarded.
HandlePeerInfoUpdated(ev) ==
  LET sent == BroadcastSend(block_height_broadcast, block_height_receivers,
                            BlockHeightHeartbeatData(ev.peer, ev.rid)) IN
  /\ block_height_broadcast' = sent.chan
  /\ effects' =
       << Effect("block_height_broadcast", ev.kind, ev.rid, sent.result, NoRange) >>
  /\ Returned("true")

\* p2p_event = self.p2p_service.next_event() => match ..
HandleEvent(ev) ==
  CASE ev.kind = "PeerInfoUpdated" ->
         /\ HandlePeerInfoUpdated(ev)
         /\ UNCHANGED <<calls, outbound, tx_broadcast>>
    [] ev.kind = "NewTx" ->
         /\ HandleNewTx(ev)
         /\ UNCHANGED <<calls, outbound>>
    [] ev.kind \in {"NewBlock", "ConsensusVote"} ->
         /\ effects' = <<>>
         /\ Returned("true")
         /\ UNCHANGED <<calls, outbound, tx_broadcast, block_height_broadcast>>
    [] ev.kind \in {"Block", "Transactions"} ->
         /\ RespondFromDb(ev)
         /\ UNCHANGED <<calls, outbound, tx_broadcast, block_height_broadcast>>
    [] ev.kind = "Transactions2" ->
         /\ HandleTransactions2(ev)
         /\ UNCHANGED <<calls, outbound, tx_broadcast, block_height_broadcast>>
    [] ev.kind = "SealedHeaders" ->
         /\ RespondSealedHeaders(ev)
         /\ UNCHANGED <<calls, outbound, tx_broadcast, block_height_broadcast>>
    [] OTHER ->
         LET got == DeliverResponse(calls, outbound, ev) IN
         /\ calls' = got.calls
         /\ outbound' = got.outbound
         /\ effects' = <<>>
         /\ Returned("true")
         /\ UNCHANGED <<tx_broadcast, block_height_broadcast>>

RunEvent ==
  /\ LoopEntered
  /\ EventBranch
  /\ events' = Tail(events)
  /\ HandleEvent(Head(events))
  /\ UNCHANGED <<returned, queue, shutdownSignal, emitted, importer, imported,
                 tx_receivers, block_height_receivers, peers_ids, shared_clones>>

\* The height branch with the end of the stream treated as a failure.
RunHeight_EndIsError ==
  /\ LoopEntered
  /\ HeightBranch
  /\ IF importer = "ready"
       THEN /\ effects' = << Effect("update_block_height", "none", imported, "none", NoRange) >>
            /\ importer' = "pending"
            /\ Returned("true")
       ELSE /\ effects' = <<>>
            /\ Returned("err")
            /\ UNCHANGED importer
  /\ UNCHANGED <<calls, returned, queue, shutdownSignal, events, emitted,
                 outbound, imported>>
  /\ GossipUnchanged
  /\ PeersUnchanged
  /\ SendersUnchanged

\* latest_block_height = self.next_block_height.next() => ..
RunHeight ==
  /\ LoopEntered
  /\ HeightBranch
  /\ IF importer = "ready"
       THEN /\ effects' = << Effect("update_block_height", "none", imported, "none", NoRange) >>
            /\ importer' = "pending"
            /\ Returned("true")
       ELSE /\ effects' = <<>>
            /\ Returned("false")
            /\ UNCHANGED importer
  /\ UNCHANGED <<calls, returned, queue, shutdownSignal, events, emitted,
                 outbound, imported>>
  /\ GossipUnchanged
  /\ PeersUnchanged
  /\ SendersUnchanged

\* The Task goes away after answering every outstanding query with None.
DropTask_AnswersNone ==
  /\ taskPc' = "dropped"
  /\ calls' = [i \in 1..Len(calls) |->
                 IF i \in QueuedIds(queue) \cup outbound /\ calls[i].chan = "open"
                   THEN [calls[i] EXCEPT !.chan = "value", !.value = "None",
                                         !.replies = calls[i].replies + 1]
                   ELSE calls[i]]
  /\ queue' = <<>>
  /\ outbound' = {}
  /\ events' = <<>>
  /\ UNCHANGED <<returned, shouldContinue, shutdownSignal, emitted, importer,
                 imported, effects>>
  /\ GossipUnchanged
  /\ PeersUnchanged
  /\ SendersUnchanged

\* The Task goes away: the receiving half of the command channel with the
\* commands still in it, and the engine with its table of outbound requests.
DropTask ==
  /\ taskPc' = "dropped"
  /\ calls' = ChanDrop(calls, QueuedIds(queue) \cup outbound)
  /\ queue' = <<>>
  /\ outbound' = {}
  /\ events' = <<>>
  /\ UNCHANGED <<returned, shouldContinue, shutdownSignal, emitted, importer,
                 imported, effects>>
  /\ GossipUnchanged
  /\ PeersUnchanged
  /\ SendersUnchanged

\* async fn shutdown(self): nothing is flushed, self is dropped.
shutdown ==
  /\ taskPc = "returned_false"
  /\ DropTask

\* An error returned by run, or a panic in it, ends the actor.
Terminate ==
  /\ taskPc \in {"returned_err", "panicked"}
  /\ DropTask

\* ------------------------------------------------------------------ Task::new
Init ==
  /\ calls = <<>>
  /\ returned = NoReturn
  /\ queue = <<>>
  /\ taskPc = "run"
  /\ shouldContinue = "none"
  /\ shutdownSignal = FALSE
  /\ events = <<>>
  /\ emitted = 0
  /\ outbound = {}
  /\ importer = "pending"
  /\ imported = 0
  /\ effects = <<>>
  /\ tx_broadcast = NewChannel
  /\ tx_receivers = <<>>
  /\ block_height_broadcast = NewChannel
  /\ block_height_receivers = <<>>
  /\ peers_ids = {}
  /\ shared_clones = 1

Next ==
  \/ notify_gossip_transaction_validity
  \/ get_block
  \/ select_peer
  \/ get_sealed_block_headers
  \/ get_transactions_from_peer
  \/ get_transactions_2_from_peer
  \/ broadcast_vote
  \/ broadcast_block
  \/ broadcast_transaction
  \/ get_peer_ids
  \/ report_peer
  \/ ReceiverAwait
  \/ NetworkEmit
  \/ NetworkResponse
  \/ ImporterYield
  \/ ImporterEnd
  \/ SignalShutdown
  \/ RunShutdown
  \/ RunCommand
  \/ RunEvent
  \/ RunHeight
  \/ shutdown
  \/ Terminate

Spec == Init /\ [][Next]_vars

\* One iteration of run, whichever branch it takes.
RunStep == RunShutdown \/ RunCommand \/ RunEvent \/ RunHeight

\* The Task is polled whenever one of its sources is ready, the runner calls
\* shutdown once run has ended, every exchange with a peer ends (answer or
\* failure), and a caller that can resume does.
Fairness ==
  /\ WF_vars(RunStep)
  /\ WF_vars(shutdown)
  /\ WF_vars(Terminate)
  /\ WF_vars(NetworkResponse)
  /\ WF_vars(ReceiverAwait)

FairSpec == Init /\ [][Next]_vars /\ Fairness

\* ------------------------------------------------------------------ full queue
\* The command channel after earlier broadcasts filled it up to its last
\* slot, or completely, while the Task was busy.
Backlog(n) == [i \in 1..n |-> Command("BroadcastTransaction", 0, NoPeer, NoRange)]

InitBackpressure ==
  /\ calls = <<>>
  /\ returned = NoReturn
  /\ queue \in {Backlog(CommandChannelCapacity - 1), Backlog(CommandChannelCapacity)}
  /\ taskPc = "run"
  /\ shouldContinue = "true"
  /\ shutdownSignal = FALSE
  /\ events = <<>>
  /\ emitted = 0
  /\ outbound = {}
  /\ importer = "pending"
  /\ imported = 0
  /\ effects = <<>>
  /\ tx_broadcast = NewChannel
  /\ tx_receivers = <<>>
  /\ block_height_broadcast = NewChannel
  /\ block_height_receivers = <<>>
  /\ peers_ids = {}
  /\ shared_clones = 1

\* The Task takes commands off the full queue, a bounded number of them.
DrainCommand ==
  /\ Len(queue) > CommandChannelCapacity - MaxDrain
  /\ RunCommand

NextBackpressure ==
  \/ notify_gossip_transaction_validity
  \/ get_block
  \/ select_peer
  \/ get_sealed_block_headers
  \/ get_transactions_from_peer
  \/ get_transactions_2_from_peer
  \/ broadcast_vote
  \/ broadcast_block
  \/ broadcast_transaction
  \/ get_peer_ids
  \/ report_peer
  \/ ReceiverAwait
  \/ DrainCommand
  \/ SignalShutdown
  \/ RunShutdown
  \/ shutdown

SpecBackpressure == InitBackpressure /\ [][NextBackpressure]_vars

\* ------------------------------------------------------------------ gossip
\* The gossip channel when idle, or after a run of transactions that a
\* subscriber of the first hour has not read: one slot of the ring is free.
GossipBacklog(n) == [i \in 1..n |-> GossipData(1, 0)]

InitGossip ==
  /\ calls = <<>>
  /\ returned = NoReturn
  /\ queue = <<>>
  /\ taskPc = "run"
  /\ shouldContinue = "true"
  /\ shutdownSignal = FALSE
  /\ events = <<>>
  /\ emitted = 0
  /\ outbound = {}
  /\ importer = "pending"
  /\ imported = 0
  /\ effects = <<>>
  /\ \/ /\ tx_broadcast = NewChannel
        /\ tx_receivers = <<>>
     \/ /\ tx_broadcast = [tail |-> BroadcastBuffer - 1,
                            buf |-> GossipBacklog(BroadcastBuffer - 1)]
        /\ tx_receivers = << Receiver(1, 1, NothingGot) >>
  /\ block_height_broadcast = NewChannel
  /\ block_height_receivers = <<>>
  /\ peers_ids = {}
  /\ shared_clones = 1

\* The network delivers a gossiped transaction.
GossipEmit ==
  /\ NetworkEmit
  /\ events'[Len(events')].kind = "NewTx"

NextGossip ==
  \/ subscribe_tx
  \/ TxRecv
  \/ GossipEmit
  \/ broadcast_transaction
  \/ RunCommand
  \/ RunEvent

SpecGossip == InitGossip /\ [][NextGossip]_vars

\* ------------------------------------------------------------------ broadcasts
\* Heartbeats sent earlier.
HeartbeatBacklog(n) == [i \in 1..n |-> BlockHeightHeartbeatData(1, 0)]

\* A channel on which n messages were sent since its one receiver
\* subscribed, none of which the receiver has read.
Unread(backlog) == [tail |-> Len(backlog), buf |-> backlog]

\* How far behind a subscriber that does not read may be when the events of
\* a behaviour arrive: one short of the capacity asked for, or as many
\* messages as the ring has slots.
BacklogSizes == {BroadcastChannelCapacity - 1, BroadcastBuffer}

\* Both broadcast channels idle, or one of them with a subscriber that has
\* fallen behind.
InitBroadcast ==
  /\ calls = <<>>
  /\ returned = NoReturn
  /\ queue = <<>>
  /\ taskPc = "run"
  /\ shouldContinue = "true"
  /\ shutdownSignal = FALSE
  /\ events = <<>>
  /\ emitted = 0
  /\ outbound = {}
  /\ importer = "pending"
  /\ imported = 0
  /\ effects = <<>>
  /\ peers_ids = {}
  /\ shared_clones = 1
  /\ \/ /\ tx_broadcast = NewChannel
        /\ tx_receivers = <<>>
        /\ block_height_broadcast = NewChannel
        /\ block_height_receivers = <<>>
     \/ /\ \E n \in BacklogSizes : tx_broadcast = Unread(GossipBacklog(n))
        /\ tx_receivers = << Receiver(1, 1, NothingGot) >>
        /\ block_height_broadcast = NewChannel
        /\ block_height_receivers = <<>>
     \/ /\ tx_broadcast = NewChannel
        /\ tx_receivers = <<>>
        /\ \E n \in BacklogSizes : block_height_broadcast = Unread(HeartbeatBacklog(n))
        /\ block_height_receivers = << Receiver(1, 1, NothingGot) >>

\* The network delivers a gossiped transaction or a peer's height.
BroadcastEmit ==
  /\ NetworkEmit
  /\ events'[Len(events')].kind \in {"NewTx", "PeerInfoUpdated"}

NextBroadcast ==
  \/ subscribe_tx
  \/ subscribe_block_height
  \/ TxRecv
  \/ BlockHeightRecv
  \/ BroadcastEmit
  \/ broadcast_transaction
  \/ RunCommand
  \/ RunEvent

SpecBroadcast == InitBroadcast /\ [][NextBroadcast]_vars

\* ------------------------------------------------------------------ lifecycle
\* Task::new has built the Task; the service is not started yet.
InitLifecycle ==
  /\ calls = <<>>
  /\ returned = NoReturn
  /\ queue = <<>>
  /\ taskPc = "not_started"
  /\ shouldContinue = "none"
  /\ shutdownSignal = FALSE
  /\ events = <<>>
  /\ emitted = 0
  /\ outbound = {}
  /\ importer = "pending"
  /\ imported = 0
  /\ effects = <<>>
  /\ tx_broadcast = NewChannel
  /\ tx_receivers = <<>>
  /\ block_height_broadcast = NewChannel
  /\ block_height_receivers = <<>>
  /\ peers_ids = {}
  /\ shared_clones = 1

\* into_task: self.p2p_service.start().await?; Ok(self). The service is
\* started when the engine started, and has failed to start otherwise.
into_task ==
  /\ taskPc = "not_started"
  /\ \E started \in {"ok", "err"} :
       taskPc' = IF started = "ok" THEN "run" ELSE "start_failed"
  /\ UNCHANGED <<calls, returned, queue, shouldContinue, shutdownSignal, events,
                 emitted, outbound, importer, imported, effects>>
  /\ GossipUnchanged
  /\ PeersUnchanged
  /\ SendersUnchanged

\* stop_and_await on a service that was started.
StopStarted ==
  /\ taskPc \notin {"not_started", "start_failed"}
  /\ SignalShutdown

\* The engine has events only once it was started.
EmitStarted ==
  /\ taskPc \notin {"not_started", "start_failed"}
  /\ NetworkEmit

\* The service with an import stream that never yields (stream::pending()).
NextLifecycle ==
  \/ into_task
  \/ StopStarted
  \/ get_peer_ids
  \/ broadcast_transaction
  \/ ReceiverAwait
  \/ EmitStarted
  \/ RunShutdown
  \/ RunCommand
  \/ RunEvent
  \/ shutdown
  \/ Terminate

\* The runner polls a started Task, and calls shutdown once run has ended.
FairSpecLifecycle ==
  /\ InitLifecycle
  /\ [][NextLifecycle]_vars
  /\ WF_vars(RunStep)
  /\ WF_vars(shutdown)
  /\ WF_vars(Terminate)

\* ------------------------------------------------------------------ senders
\* shared_data(): self.shared.clone(), or a clone of a clone.
shared_data ==
  /\ shared_clones < MaxClones
  /\ shared_clones' = shared_clones + 1
  /\ UNCHANGED <<calls, returned, queue, taskPc, shouldContinue, shutdownSignal,
                 events, emitted, outbound, importer, imported, effects>>
  /\ GossipUnchanged
  /\ PeersUnchanged

\* A SharedState handle outside the Task is dropped.
DropSharedState ==
  /\ shared_clones > 0
  /\ shared_clones' = shared_clones - 1
  /\ UNCHANGED <<calls, returned, queue, taskPc, shouldContinue, shutdownSignal,
                 events, emitted, outbound, importer, imported, effects>>
  /\ GossipUnchanged
  /\ PeersUnchanged

\* A method is called on a handle: there is one to call it on.
HasHandle == shared_clones > 0

\* The Task and the handles to it, which come and go.
NextSenders ==
  \/ shared_data
  \/ DropSharedState
  \/ (HasHandle /\ get_peer_ids)
  \/ (HasHandle /\ select_peer)
  \/ (HasHandle /\ broadcast_transaction)
  \/ ReceiverAwait
  \/ NetworkEmit
  \/ SignalShutdown
  \/ RunShutdown
  \/ RunCommand
  \/ RunEvent
  \/ shutdown
  \/ Terminate

SpecSenders == Init /\ [][NextSenders]_vars

\* ------------------------------------------------------------------ abandoned calls
\* Callers of queries that may give up before the Task answers.
NextAbandon ==
  \/ get_peer_ids
  \/ select_peer
  \/ get_block
  \/ broadcast_transaction
  \/ AbandonCall
  \/ ReceiverAwait
  \/ NetworkResponse
  \/ PeerSetChanges
  \/ RunCommand
  \/ RunEvent

SpecAbandon == Init /\ [][NextAbandon]_vars

\* ------------------------------------------------------------------ peer ids
\* Callers that ask for the peer ids and callers that broadcast, while peers
\* come and go.
NextPeerIds ==
  \/ get_peer_ids
  \/ broadcast_vote
  \/ broadcast_block
  \/ broadcast_transaction
  \/ ReceiverAwait
  \/ PeerSetChanges
  \/ RunCommand

\* The Task is polled while a command is queued, and a caller whose reply
\* has come resumes.
FairSpecPeerIds ==
  Init /\ [][NextPeerIds]_vars /\ WF_vars(RunCommand) /\ WF_vars(ReceiverAwait)

\* ================================================================== claims
CallIds == 1..MaxInputs

IsAwaiting(id) == id <= Len(calls) /\ calls[id].pc = "awaiting"
HasReturned(id) == id <= Len(calls) /\ calls[id].pc = "done"

\* A query whose command entered the queue: its call has a reply channel.
IsQuery(id) == id <= Len(calls) /\ calls[id].chan # "none"

C2_ShutdownFirst ==
  [][ (shutdownSignal /\ RunStep) =>
        /\ shouldContinue' = "false"
        /\ taskPc' = "returned_false"
        /\ queue' = queue
        /\ events' = events
        /\ importer' = importer
        /\ calls' = calls
        /\ outbound' = outbound
        /\ effects' = <<>> ]_vars

\* run has returned false on the signal with a command, an event and an
\* imported height all waiting.
C2_Witness ==
  /\ shutdownSignal
  /\ taskPc = "returned_false"
  /\ shouldContinue = "false"
  /\ effects = <<>>
  /\ queue # <<>>
  /\ events # <<>>
  /\ importer = "ready"

\* ------------------------------------------------------------------ C3
\* The Task ended with Ok(false) on the shutdown signal (or would have).
StoppedClean == taskPc \in {"returned_false", "dropped"} /\ shouldContinue = "false"

\* The calls whose reply is outstanding: queued, or in flight at a peer.
Outstanding == QueuedIds(queue) \cup outbound

\* C3: once the shutdown signal has stopped the loop no queued command is
\* processed (no further effect, no value on any reply channel), the
\* stopping iteration and the shutdown answer nobody, and every outstanding
\* query is left with a closed reply channel, which its caller sees as an
\* error.
C3_ShutdownDropsReplies ==
  /\ [][ StoppedClean =>
           /\ effects' = effects
           /\ \A id \in 1..Len(calls) :
                /\ calls'[id].replies = calls[id].replies
                /\ calls'[id].chan = "value" => calls[id].chan = "value" ]_vars
  /\ [][ RunShutdown => queue' = queue /\ calls' = calls /\ outbound' = outbound ]_vars
  /\ [][ shutdown => \A id \in Outstanding : calls'[id].chan = "closed" ]_vars
  /\ [](taskPc = "dropped" =>
          /\ queue = <<>>
          /\ \A id \in 1..Len(calls) : calls[id].chan # "open")
  /\ [][ \A id \in 1..Len(calls) :
           calls[id].chan = "closed" /\ calls[id].pc = "awaiting"
             /\ calls'[id].pc = "done"
           => returned'.id = id /\ returned'.result = "err_recv_closed" ]_vars

\* The signal stopped the Task (the import stream never ended) with a
\* GetPeerIds command still queued: its channel is closed, and the caller of
\* an earlier query has seen the error.
C3_Witness ==
  /\ taskPc = "dropped"
  /\ shutdownSignal
  /\ shouldContinue = "false"
  /\ importer = "pending"
  /\ Len(calls) = 2
  /\ calls[1].chan = "closed"
  /\ calls[2].chan = "closed"
  /\ calls[2].pc = "awaiting"
  /\ calls[2].kind = "GetPeerIds"
  /\ returned.id = 1
  /\ returned.result = "err_recv_closed"

\* ------------------------------------------------------------------ C4
IsDbError(e) == e # <<>> /\ e[1].op = "db" /\ e[1].val = "Err"

\* C4: when storage fails while a remote peer's Block, Transactions or
\* in-bound SealedHeaders request is served, the iteration sends None for that
\* request id after the failed lookup and returns the error; after that
\* nothing more is processed (no further iteration runs).
C4_StorageErrorIsFatal ==
  /\ [](IsDbError(effects) =>
          /\ Len(effects) = 2
          /\ effects[2].op = "send_response_msg"
          /\ effects[2].rid = effects[1].rid
          /\ effects[2].val = "None"
          /\ shouldContinue = "err"
          /\ taskPc \in {"returned_err", "dropped"})
  /\ [][ (RunEvent /\ IsDbError(effects')) =>
           /\ Head(events).kind \in {"Block", "Transactions", "SealedHeaders"}
           /\ effects'[1].rid = Head(events).rid ]_vars
  /\ [][ shouldContinue = "err" =>
           /\ effects' = effects
           /\ shouldContinue' = "err"
           /\ taskPc' # "run"
           /\ \A id \in 1..Len(calls) : calls'[id].replies = calls[id].replies ]_vars

\* The actor has ended on a storage error with a command left unprocessed at
\* the time: its caller sees the reply channel closed.
C4_Witness ==
  /\ IsDbError(effects)
  /\ taskPc = "dropped"
  /\ Len(calls) = 1
  /\ calls[1].kind = "GetPeerIds"
  /\ calls[1].chan = "closed"

\* ------------------------------------------------------------------ C5
IsLongHeadersRequest(ev) ==
  ev.kind = "SealedHeaders" /\ RangeLen(ev.range) > MaxHeadersPerRequest

\* C5: a remote peer's sealed-headers request whose range is longer than
\* max_headers_per_request is answered with None for its request id, without
\* a storage lookup, and the iteration returns should_continue = true.
C5_LongRangeAnsweredNone ==
  [][ (RunEvent /\ IsLongHeadersRequest(Head(events))) =>
        /\ effects' = << Effect("send_response_msg", "SealedHeaders",
                                Head(events).rid, "None", Head(events).range) >>
        /\ shouldContinue' = "true"
        /\ taskPc' = "run" ]_vars

C5_Witness ==
  /\ Len(effects) = 1
  /\ effects[1].op = "send_response_msg"
  /\ effects[1].kind = "SealedHeaders"
  /\ RangeLen(effects[1].range) > MaxHeadersPerRequest
  /\ effects[1].val = "None"
  /\ taskPc = "run"

\* ------------------------------------------------------------------ C6
IsLong(r) == RangeLen(r) > MaxHeadersPerRequest

\* C6 as stated: no GetSealedHeaders command for a range longer than the
\* maximum is ever in the command queue, and no sealed-headers request for
\* such a range is passed to send_request_msg.
C6_LongRangeRejectedLocally ==
  /\ \A i \in 1..Len(queue) :
       queue[i].kind = "GetSealedHeaders" => ~IsLong(queue[i].range)
  /\ \A i \in 1..Len(effects) :
       effects[i].op = "send_request_msg" /\ effects[i].kind = "GetSealedHeaders"
         => ~IsLong(effects[i].range)

\* C6, amended: get_sealed_block_headers rejects a range locally only when
\* it is empty. A call with a well-formed peer identity and a non-empty
\* range, however long, never returns a validation error: it fails only when
\* the command channel or its reply channel is closed; the commands and the
\* requests passed to send_request_msg carry non-empty ranges of any length.
C6_OnlyEmptyRangeRejected ==
  /\ (returned.kind = "GetSealedHeaders" /\ PeerIdFromBytes(returned.peer).ok
        /\ ~RangeIsEmpty(returned.range))
       => returned.result \in {"reply", "err_recv_closed", "err_send_closed"}
  /\ \A i \in 1..Len(queue) :
       queue[i].kind = "GetSealedHeaders" => ~RangeIsEmpty(queue[i].range)
  /\ \A i \in 1..Len(effects) :
       effects[i].op = "send_request_msg" /\ effects[i].kind = "GetSealedHeaders"
         => ~RangeIsEmpty(effects[i].range)

\* A sealed-headers request for a range longer than the maximum went to the
\* peer, and the caller got the peer's answer.
C6_Witness ==
  /\ returned.kind = "GetSealedHeaders"
  /\ IsLong(returned.range)
  /\ returned.result = "reply"

\* ------------------------------------------------------------------ C7
\* C7: get_sealed_block_headers with an empty range (start >= end) returns an
\* error value to its caller, and no command of it is queued.
C7_EmptyRangeIsError ==
  /\ (returned.kind = "GetSealedHeaders" /\ RangeIsEmpty(returned.range))
       => returned.result = "err_empty_range"
  /\ \A i \in 1..Len(queue) :
       queue[i].kind = "GetSealedHeaders" => ~RangeIsEmpty(queue[i].range)

\* ------------------------------------------------------------------ C8
PeerBytesKinds ==
  {"GetSealedHeaders", "GetTransactions", "GetTransactions2", "RespondWithPeerReport"}

\* C8: a method that takes a peer identity as bytes returns an error value,
\* never panics, when the bytes do not parse; nothing is queued for it.
C8_BadPeerBytesIsError ==
  /\ (returned.kind \in PeerBytesKinds /\ ~PeerIdFromBytes(returned.peer).ok)
       => returned.result = "err_peer_id"
  /\ \A i \in 1..Len(queue) : queue[i].kind \in PeerBytesKinds => queue[i].peer \in Peers

\* ------------------------------------------------------------------ C9
TrySendKinds == BroadcastKinds \cup ReportKinds

\* A try_send method returns in this step.
TrySendReturns ==
  /\ Len(calls') = Len(calls) + 1
  /\ returned'.id = Len(calls')
  /\ returned'.kind \in TrySendKinds

\* C9: the command queue never holds more than 100 commands; with 100
\* commands queued every broadcast and report method can still return (it
\* does not wait for room), what it returns is an error, and the queue is
\* left as it was.
C9_FullQueueIsError ==
  /\ [](Len(queue) <= CommandChannelCapacity)
  /\ [](Len(queue) = CommandChannelCapacity /\ InputLeft =>
          /\ ENABLED broadcast_transaction
          /\ ENABLED broadcast_block
          /\ ENABLED broadcast_vote
          /\ ENABLED notify_gossip_transaction_validity
          /\ ENABLED report_peer)
  /\ [][ (Len(queue) = CommandChannelCapacity /\ TrySendReturns) =>
           /\ returned'.result \in {"err_full", "err_peer_id"}
           /\ queue' = queue ]_vars

\* A broadcast or report was turned away by a queue of 100 commands.
C9_Witness ==
  /\ Len(queue) = CommandChannelCapacity
  /\ returned.kind \in TrySendKinds
  /\ returned.result = "err_full"

\* ------------------------------------------------------------------ C10
IsPublishError(e) == e # <<>> /\ e[1].op = "publish_message" /\ e[1].val = "err"

\* C10: when publish_message fails for a Broadcast* command the iteration
\* still returns should_continue = true with no error, the command's caller
\* is not told (what callers were given is untouched), and the next command
\* in the queue can be processed.
C10_PublishErrorIgnored ==
  /\ [](IsPublishError(effects) =>
          /\ Len(effects) = 1
          /\ shouldContinue = "true"
          /\ taskPc = "run"
          /\ (CommandBranch => ENABLED RunCommand))
  /\ [][ RunCommand => returned' = returned ]_vars
  /\ [][ (RunCommand /\ Head(queue).kind \in BroadcastKinds) =>
           /\ Len(effects') = 1
           /\ effects'[1].op = "publish_message"
           /\ calls' = calls
           /\ shouldContinue' = "true" ]_vars

\* A publish failed, the broadcaster had been given Ok, and the Task is
\* about to take the next command.
C10_Witness ==
  /\ IsPublishError(effects)
  /\ CommandBranch
  /\ taskPc = "run"
  /\ Len(calls) = 2

\* ------------------------------------------------------------------ C11
\* The peer manager had no peer for the command of this iteration.
NoPeerFound(e) ==
  e # <<>> /\ e[1].op = "get_peer_id_with_height" /\ e[1].val = "None"

\* C11 as stated: for GetBlock and SelectPeer, when the peer manager reports
\* no peer at or above the requested height, the Task replies None to the
\* caller and starts no exchange (send_request_msg is not called).
C11_NoPeerRepliesNone ==
  NoPeerFound(effects) =>
    /\ Len(effects) = 2
    /\ effects[2].op = "reply"
    /\ effects[2].val = "None"

\* C11, amended: for SelectPeer, when the peer manager reports no peer the
\* Task replies None and starts no exchange. For GetBlock the Task never
\* replies itself: it hands the peer manager's answer, None included, and the
\* reply channel to send_request_msg, so the caller's outcome is then the
\* engine's (the channel recorded for an exchange, or dropped on failure).
C11_NoPeerPassedOn ==
  /\ [][ (RunCommand /\ Head(queue).kind = "SelectPeer" /\ NoPeerFound(effects')) =>
           /\ Len(effects') = 2
           /\ effects'[2] = Effect("reply", "SelectPeer", Head(queue).id, "None", NoRange)
           /\ calls'[Head(queue).id].chan = "value"
           /\ calls'[Head(queue).id].value = "None"
           /\ outbound' = outbound ]_vars
  /\ [][ (RunCommand /\ Head(queue).kind = "GetBlock") =>
           /\ Len(effects') = 2
           /\ effects'[1].op = "get_peer_id_with_height"
           /\ effects'[2].op = "send_request_msg"
           /\ effects'[2].rid = Head(queue).id
           /\ calls'[Head(queue).id].replies = calls[Head(queue).id].replies
           /\ IF effects'[2].val = "ok"
                THEN /\ outbound' = outbound \cup {Head(queue).id}
                     /\ calls'[Head(queue).id].chan = "open"
                ELSE /\ outbound' = outbound
                     /\ calls'[Head(queue).id].chan = "closed" ]_vars

\* GetBlock found no peer, send_request_msg took the request all the same,
\* and the caller is waiting for the exchange to end.
C11_Witness ==
  /\ NoPeerFound(effects)
  /\ effects[1].kind = "GetBlock"
  /\ Len(effects) = 2
  /\ effects[2].op = "send_request_msg"
  /\ effects[2].val = "ok"
  /\ effects[1].rid \in outbound
  /\ calls[effects[1].rid].pc = "awaiting"

\* ------------------------------------------------------------------ C12
\* The message the channel stored as number n.
Stored(ch, n) == ch.buf[n - ChannelHead(ch) + 1]
Retained(ch, n) == ChannelHead(ch) <= n /\ n <= ch.tail

\* Receiver i is the one whose recv returned in this step.
RecvReturned(i) ==
  /\ Len(tx_receivers') = Len(tx_receivers)
  /\ i \in 1..Len(tx_receivers)
  /\ tx_receivers'[i] # tx_receivers[i]

\* C12 as stated: every transaction gossip event the Task handles reaches
\* every subscriber that subscribed before it was handled. Stated here is what
\* that needs: no message a subscriber has yet to read is ever discarded, and
\* no recv tells a subscriber that it missed messages.
C12_EveryTxReachesEverySubscriber ==
  \A i \in 1..Len(tx_receivers) :
    /\ tx_receivers[i].next >= ChannelHead(tx_broadcast)
    /\ tx_receivers[i].got.kind # "lagged"

\* C12, amended: a transaction gossip event the Task handles while there is
\* a subscriber is stored on the channel with the peer and the message id of
\* the event, unread for every subscriber of that moment; what is stored
\* never changes; a subscriber reads the messages sent since it subscribed
\* one by one in the order sent, and is sure to get each of them as long as
\* it is fewer than 100 messages behind: further behind, the oldest unread
\* ones may be discarded for it. A subscriber never receives a message sent
\* before it subscribed.
C12_TxForwarded ==
  /\ [][ (RunEvent /\ Head(events).kind = "NewTx" /\ tx_receivers # <<>>) =>
           /\ tx_broadcast'.tail = tx_broadcast.tail + 1
           /\ Stored(tx_broadcast', tx_broadcast'.tail)
                = GossipData(Head(events).peer, Head(events).rid)
           /\ \A i \in 1..Len(tx_receivers) :
                /\ tx_receivers[i].start <= tx_broadcast'.tail
                /\ tx_receivers[i].next <= tx_broadcast'.tail ]_vars
  /\ [][ \A n \in 1..tx_broadcast.tail :
           Retained(tx_broadcast, n) /\ Retained(tx_broadcast', n)
             => Stored(tx_broadcast', n) = Stored(tx_broadcast, n) ]_vars
  /\ [][ \A i \in 1..Len(tx_receivers) :
           RecvReturned(i) =>
             IF tx_broadcast.tail - tx_receivers[i].next < BroadcastChannelCapacity
                  \/ Retained(tx_broadcast, tx_receivers[i].next)
               THEN /\ Retained(tx_broadcast, tx_receivers[i].next)
                    /\ tx_receivers'[i].got
                         = Got(Stored(tx_broadcast, tx_receivers[i].next))
                    /\ tx_receivers'[i].next = tx_receivers[i].next + 1
               ELSE /\ tx_receivers'[i].got.kind = "lagged"
                    /\ tx_receivers'[i].next > tx_receivers[i].next ]_vars
  /\ [][ Len(tx_receivers') > Len(tx_receivers) =>
           tx_receivers'[Len(tx_receivers')].start = tx_broadcast.tail + 1 ]_vars
  /\ [](\A i \in 1..Len(tx_receivers) :
          /\ tx_receivers[i].start <= tx_receivers[i].next
          /\ tx_receivers[i].next <= tx_broadcast.tail + 1)
  /\ [][ \A i \in 1..Len(tx_receivers) :
           tx_receivers'[i].start = tx_receivers[i].start ]_vars

\* The first subscriber has received the first transaction with its peer and
\* message id; a second one, who subscribed after it was handled, has
\* nothing to read.
C12_Witness ==
  /\ Len(tx_receivers) = 2
  /\ tx_receivers[1].got = Got(GossipData(1, 1))
  /\ tx_receivers[2].start > tx_receivers[1].start
  /\ tx_receivers[2].start = tx_broadcast.tail + 1
  /\ tx_receivers[2].got.kind = "none"
  /\ tx_broadcast.tail = 1

OnlyStreamEnd ==
  /\ importer = "exhausted"
  /\ ~shutdownSignal
  /\ queue = <<>>
  /\ events = <<>>

\* C14: when the block-height stream is exhausted in an iteration where no
\* shutdown signal, command or network event is ready, the iteration can run
\* and returns Ok(false): a normal stop, with no error, no call of
\* update_block_height and no other effect.
C14_StreamEndStops ==
  /\ [](LoopEntered /\ OnlyStreamEnd => ENABLED RunHeight)
  /\ [][ (RunStep /\ OnlyStreamEnd) =>
           /\ shouldContinue' = "false"
           /\ taskPc' = "returned_false"
           /\ effects' = <<>>
           /\ calls' = calls
           /\ outbound' = outbound
           /\ importer' = "exhausted" ]_vars

\* run has returned false on the end of the stream, after a height had been
\* forwarded, with no shutdown signal.
C14_Witness ==
  /\ importer = "exhausted"
  /\ imported = 1
  /\ ~shutdownSignal
  /\ taskPc = "returned_false"
  /\ shouldContinue = "false"
  /\ effects = <<>>

\* ------------------------------------------------------------------ C15
Started == taskPc = "run"
Stopped == taskPc = "dropped" /\ shouldContinue = "false"

\* No command was submitted, the network raised no event and the import
\* stream has not yielded.
Quiet == calls = <<>> /\ emitted = 0 /\ importer = "pending" /\ imported = 0

\* C15: a service that starts is in the started state; with no commands, no
\* network events and an import stream that never yields, the only iteration
\* of run that completes is the one of the shutdown branch, run neither
\* panics nor returns an error, and the Task goes away only after run has
\* returned false; once a stop is requested of the started service it
\* reaches the stopped state.
C15_StartThenStop ==
  /\ [][ (into_task /\ taskPc' # "start_failed") => Started' ]_vars
  /\ [][ (RunStep /\ Quiet) =>
           /\ shutdownSignal
           /\ shouldContinue' = "false"
           /\ taskPc' = "returned_false" ]_vars
  /\ [](Quiet => taskPc \notin {"panicked", "returned_err"})
  /\ [](Quiet /\ taskPc = "dropped" => Stopped /\ shutdownSignal)
  /\ (Started /\ shutdownSignal) ~> Stopped

\* Started, asked to stop, stopped: with nothing else having happened.
C15_Witness ==
  /\ Quiet
  /\ Stopped
  /\ shutdownSignal
  /\ effects = <<>>

\* ------------------------------------------------------------------ C16
\* C16: while the Task exists the command channel has a live sending half,
\* the one in the Task's own SharedState, however many handles outside the
\* Task are left; so the receive on the command channel is ready only with
\* a command, never with None, and the unreachable arm is never executed.
C16_SenderOutlivesClones ==
  /\ [](taskPc # "dropped" => LiveSenders >= 1)
  /\ [](LoopEntered /\ CommandBranch => queue # <<>>)
  /\ [](LoopEntered /\ queue = <<>> => ~ENABLED RunCommand)
  /\ [][ RunCommand => (queue' = Tail(queue) /\ taskPc' # "panicked") ]_vars

\* Every handle outside the Task was dropped after a command was sent; the
\* Task processed it and waits for the next input.
C16_Witness ==
  /\ shared_clones = 0
  /\ taskPc = "run"
  /\ shouldContinue = "true"
  /\ queue = <<>>
  /\ effects # <<>>
  /\ effects[1].op = "publish_message"

\* ------------------------------------------------------------------ C17
\* The command at the head of the queue is a GetPeerIds or SelectPeer whose
\* caller has dropped the receiving half of the reply channel.
HeadAbandoned ==
  /\ queue # <<>>
  /\ Head(queue).kind \in {"GetPeerIds", "SelectPeer"}
  /\ calls[Head(queue).id].chan = "rx_dropped"

\* The command at the head of the queue is a GetPeerIds or SelectPeer.
HeadReplies == queue # <<>> /\ Head(queue).kind \in {"GetPeerIds", "SelectPeer"}

\* C17: when the caller of GetPeerIds or SelectPeer has dropped the receiving
\* half of its reply channel before the Task processes the command, the
\* Task can still process it, the reply attempt leaves every channel as it
\* was and raises no error, and the Task goes on as after a delivered reply:
\* should_continue = true, the command is off the queue, the reply was
\* attempted with the value of that moment, nothing else has changed.
C17_AbandonedReplyIsNoOp ==
  /\ [](LoopEntered /\ CommandBranch /\ HeadAbandoned => ENABLED RunCommand)
  /\ [][ (RunCommand /\ HeadAbandoned) => calls' = calls ]_vars
  /\ [][ (RunCommand /\ HeadReplies) =>
           /\ shouldContinue' = "true"
           /\ taskPc' = "run"
           /\ queue' = Tail(queue)
           /\ outbound' = outbound
           /\ events' = events
           /\ effects' # <<>>
           /\ effects'[Len(effects')].op = "reply"
           /\ effects'[Len(effects')].rid = Head(queue).id
           /\ (Head(queue).kind = "GetPeerIds"
                 => effects'[Len(effects')].val = PeerIdsValue(peers_ids)) ]_vars

\* The Task has answered a GetPeerIds whose caller had given up: the channel
\* holds no value, and the Task is running.
C17_Witness ==
  /\ Len(effects) = 1
  /\ effects[1].op = "reply"
  /\ effects[1].kind = "GetPeerIds"
  /\ calls[effects[1].rid].chan = "rx_dropped"
  /\ calls[effects[1].rid].replies = 0
  /\ taskPc = "run"
  /\ shouldContinue = "true"

\* ------------------------------------------------------------------ C18
\* What an iteration took from each source.
TookCommand == queue # <<>> /\ queue' = Tail(queue)
TookEvent == events # <<>> /\ events' = Tail(events)
TookHeight == importer # "pending" /\ (importer = "ready" => importer' = "pending")
LeftCommands == queue' = queue
LeftEvents == events' = events
LeftHeights == importer' = importer

\* C18: an iteration of run services one source and leaves the others as
\* they were, and the source is the first that is ready in the order
\* shutdown, commands, network events, heights: an event is consumed only
\* when no command is queued, a height only when no command is queued and no
\* event is ready, neither once shutdown is signalled.
C18_OneSourceByPriority ==
  [][ RunStep =>
        \/ shutdownSignal /\ LeftCommands /\ LeftEvents /\ LeftHeights
        \/ ~shutdownSignal /\ TookCommand /\ LeftEvents /\ LeftHeights
        \/ ~shutdownSignal /\ queue = <<>> /\ TookEvent /\ LeftCommands /\ LeftHeights
        \/ ~shutdownSignal /\ queue = <<>> /\ events = <<>> /\ TookHeight
             /\ LeftCommands /\ LeftEvents ]_vars

\* An iteration has processed a broadcast command and left an event and a
\* height, both ready, for the iterations to come.
C18_Witness ==
  /\ taskPc = "run"
  /\ ~shutdownSignal
  /\ shouldContinue = "true"
  /\ effects # <<>>
  /\ effects[1].op = "publish_message"
  /\ queue = <<>>
  /\ events # <<>>
  /\ importer = "ready"

\* ------------------------------------------------------------------ C19
\* The places of the send_response_msg calls among the effects e.
ResponsesIn(e) == { i \in 1..Len(e) : e[i].op = "send_response_msg" }

AnsweredKinds == {"Block", "Transactions", "SealedHeaders"}

\* C19: the iteration that handles a remote peer's Block, Transactions or
\* SealedHeaders request calls send_response_msg once, with the request id
\* and for the kind of that event, whatever the path (value found, value
\* absent, range too long, storage error); no other iteration calls it; and
\* the event is consumed, so no request is answered a second time.
C19_AnsweredOnce ==
  /\ [][ (RunEvent /\ Head(events).kind \in AnsweredKinds) =>
           /\ Cardinality(ResponsesIn(effects')) = 1
           /\ \A i \in ResponsesIn(effects') :
                /\ effects'[i].rid = Head(events).rid
                /\ effects'[i].kind = Head(events).kind
           /\ events' = Tail(events) ]_vars
  /\ [][ (RunStep /\ ResponsesIn(effects') # {}) =>
           (RunEvent /\ Head(events).kind \in AnsweredKinds) ]_vars
  /\ [][ effects' # effects => RunStep ]_vars
  /\ [](\A i, j \in 1..Len(events) :
          (i # j /\ events[i].kind \in RequestKinds /\ events[j].kind \in RequestKinds)
            => events[i].rid # events[j].rid)

\* Storage had no transactions for the block asked for: the peer was told
\* None, once, and the Task runs on.
C19_Witness ==
  /\ Len(effects) = 2
  /\ effects[1].op = "db"
  /\ effects[1].val = "None"
  /\ effects[2].op = "send_response_msg"
  /\ effects[2].kind = "Transactions"
  /\ effects[2].val = "None"
  /\ taskPc = "run"

\* ------------------------------------------------------------------ C20
\* C20: the iteration that handles a remote peer's Transactions2 request
\* panics: it reads no storage, calls send_response_msg for no request id,
\* has no other effect, and run returns nothing; such an event, once first
\* in line, is handled like any other.
C20_Transactions2Aborts ==
  /\ [][ (RunEvent /\ Head(events).kind = "Transactions2") =>
           /\ taskPc' = "panicked"
           /\ shouldContinue' = "panic"
           /\ effects' = <<>>
           /\ calls' = calls
           /\ outbound' = outbound ]_vars
  /\ [](LoopEntered /\ EventBranch /\ Head(events).kind = "Transactions2"
          => ENABLED RunEvent)
  /\ [][ taskPc' = "panicked" =>
           (taskPc = "panicked" \/ (RunEvent /\ Head(events).kind = "Transactions2")) ]_vars

\* The Task has panicked on a Transactions2 request; a command that came in
\* afterwards is left in the queue.
C20_Witness ==
  /\ taskPc = "panicked"
  /\ shouldContinue = "panic"
  /\ effects = <<>>
  /\ emitted = 1
  /\ events = <<>>
  /\ queue # <<>>

\* ------------------------------------------------------------------ C21
BroadcastEventKinds == {"NewTx", "PeerInfoUpdated"}

\* The event first in line is one the Task re-emits on a broadcast channel.
HeadIsBroadcast == events # <<>> /\ Head(events).kind \in BroadcastEventKinds

\* The latest iteration emitted on a broadcast channel.
Emitted(e) ==
  e # <<>> /\ e[1].op \in {"tx_broadcast", "block_height_broadcast"}

\* The messages of channel ch that receiver rx has not read, the discarded
\* ones included.
UnreadBy(ch, rx) == ch.tail - rx.next + 1

\* The oldest unread message of rx was discarded.
LostOldest(ch, rx) == rx.next < ChannelHead(ch)

\* After the send that made ch2, every receiver with more than limit unread
\* messages has lost its oldest unread one.
DiscardsBeyond(limit, ch2, receivers) ==
  \A i \in 1..Len(receivers) :
    UnreadBy(ch2, receivers[i]) > limit => LostOldest(ch2, receivers[i])

\* After the send that made ch2, the receivers that lost their oldest unread
\* message are those with more than limit unread messages.
DiscardsOnlyBeyond(limit, ch2, receivers) ==
  \A i \in 1..Len(receivers) :
    LostOldest(ch2, receivers[i]) <=> UnreadBy(ch2, receivers[i]) > limit

\* C21 as stated, in the part about slow subscribers: once a send leaves a
\* subscriber with more than 100 unread messages, the oldest unread ones are
\* discarded for it.
C21_DiscardsBeyond100 ==
  [][ (RunEvent /\ HeadIsBroadcast) =>
        /\ DiscardsBeyond(BroadcastChannelCapacity, tx_broadcast', tx_receivers)
        /\ DiscardsBeyond(BroadcastChannelCapacity, block_height_broadcast',
                          block_height_receivers) ]_vars

\* C21, amended: emitting on a broadcast channel never blocks or fails the
\* Task, whatever the subscribers do: the event can always be handled, the
\* iteration returns should_continue = true and touches no receiver; with
\* no subscriber the send fails, the channel stays as it was and the message
\* is dropped; with subscribers the message is stored, and the oldest unread
\* messages are discarded exactly for the subscribers that have more unread
\* messages than the ring of the channel holds (the 100 asked for, rounded
\* up to a power of two); the Task then goes on to its next iteration.
C21_EmitNeverBlocks ==
  /\ [](LoopEntered /\ EventBranch /\ HeadIsBroadcast => ENABLED RunEvent)
  /\ [][ (RunEvent /\ HeadIsBroadcast) =>
           /\ shouldContinue' = "true"
           /\ taskPc' = "run"
           /\ events' = Tail(events)
           /\ calls' = calls
           /\ tx_receivers' = tx_receivers
           /\ block_height_receivers' = block_height_receivers
           /\ Emitted(effects') ]_vars
  /\ [][ (RunEvent /\ Head(events).kind = "NewTx") =>
           /\ block_height_broadcast' = block_height_broadcast
           /\ IF tx_receivers = <<>>
                THEN tx_broadcast' = tx_broadcast /\ effects'[1].val = "err"
                ELSE /\ tx_broadcast'.tail = tx_broadcast.tail + 1
                     /\ effects'[1].val = "ok"
                     /\ DiscardsOnlyBeyond(BroadcastBuffer, tx_broadcast', tx_receivers)
                     /\ BroadcastBuffer >= BroadcastChannelCapacity ]_vars
  /\ [][ (RunEvent /\ Head(events).kind = "PeerInfoUpdated") =>
           /\ tx_broadcast' = tx_broadcast
           /\ IF block_height_receivers = <<>>
                THEN /\ block_height_broadcast' = block_height_broadcast
                     /\ effects'[1].val = "err"
                ELSE /\ block_height_broadcast'.tail = block_height_broadcast.tail + 1
                     /\ effects'[1].val = "ok"
                     /\ DiscardsOnlyBeyond(BroadcastBuffer, block_height_broadcast',
                                           block_height_receivers) ]_vars
  /\ [](Emitted(effects) =>
          /\ taskPc = "run"
          /\ (CommandBranch => ENABLED RunCommand)
          /\ (EventBranch => ENABLED RunEvent))

\* A heartbeat was sent while the one subscriber had a full ring of unread
\* heartbeats: its oldest one is gone, the Task runs on and has a command
\* to take next.
C21_Witness ==
  /\ Emitted(effects)
  /\ effects[1].op = "block_height_broadcast"
  /\ effects[1].val = "ok"
  /\ block_height_receivers # <<>>
  /\ LostOldest(block_height_broadcast, block_height_receivers[1])
  /\ block_height_receivers[1].got.kind = "none"
  /\ taskPc = "run"
  /\ CommandBranch

\* ------------------------------------------------------------------ C22
\* The commands that start an exchange with a peer.
RequestCommandKinds ==
  {"GetBlock", "GetSealedHeaders", "GetTransactions", "GetTransactions2"}

\* The latest iteration was a request command for call id whose
\* send_request_msg failed.
RequestFailed(e, id) ==
  /\ e # <<>>
  /\ e[Len(e)].op = "send_request_msg"
  /\ e[Len(e)].val = "err"
  /\ e[Len(e)].rid = id

\* C22: when send_request_msg fails for a GetBlock, GetSealedHeaders,
\* GetTransactions or GetTransactions2 command, the iteration returns
\* should_continue = true and the Task keeps running; the request is not
\* recorded as outbound and the caller's reply channel is closed without a
\* value, so the caller's await ends, with the closed-channel error.
C22_RequestErrorIgnored ==
  /\ [][ (RunCommand /\ queue # <<>> /\ Head(queue).kind \in RequestCommandKinds) =>
           /\ effects' # <<>>
           /\ effects'[Len(effects')].op = "send_request_msg"
           /\ effects'[Len(effects')].rid = Head(queue).id
           /\ shouldContinue' = "true"
           /\ taskPc' = "run"
           /\ RequestFailed(effects', Head(queue).id) =>
                /\ outbound' = outbound
                /\ calls[Head(queue).id].chan = "open" =>
                     /\ calls'[Head(queue).id].chan = "closed"
                     /\ calls'[Head(queue).id].replies = 0 ]_vars
  /\ [](\A id \in CallIds : RequestFailed(effects, id) =>
          /\ taskPc = "run"
          /\ shouldContinue = "true"
          /\ (CommandBranch => ENABLED RunCommand)
          /\ (EventBranch => ENABLED RunEvent))
  /\ \A id \in CallIds :
       (RequestFailed(effects, id) /\ IsAwaiting(id)) ~>
         (HasReturned(id) /\ calls[id].chan = "closed" /\ calls[id].replies = 0)
  /\ [][ \A id \in CallIds :
           (IsAwaiting(id) /\ calls[id].chan = "closed" /\ calls'[id].pc = "done") =>
             /\ returned'.id = id
             /\ returned'.result = "err_recv_closed" ]_vars

\* send_request_msg failed for a GetTransactions2 command, its caller was
\* given the closed-channel error, and the Task runs on with the next
\* command ready.
C22_Witness ==
  /\ RequestFailed(effects, returned.id)
  /\ effects[1].kind = "GetTransactions2"
  /\ returned.result = "err_recv_closed"
  /\ taskPc = "run"
  /\ shouldContinue = "true"
  /\ CommandBranch
  /\ queue # <<>>

\* ------------------------------------------------------------------ C23
\* A remote peer's sealed-headers request is first in line.
HeadIsHeadersRequest == events # <<>> /\ Head(events).kind = "SealedHeaders"

\* The iteration looked the range up in storage.
LookedUp(e, range) ==
  /\ e # <<>>
  /\ e[1] = Effect("db", "get_sealed_headers", e[1].rid, e[1].val, range)

CommandOps ==
  {"publish_message", "send_request_msg", "report", "reply", "get_peer_id_with_height"}

\* The latest iteration handled a command.
IsCommandEffect(e) == e # <<>> /\ e[1].op \in CommandOps

\* Calls are numbered in the order they were made, which is the order
\* their commands entered the queue.
QueueInOrder(q) == \A i, j \in 1..Len(q) : i < j => q[i].id < q[j].id

\* C24: commands take effect in the order they entered the command queue.
\* A command enters at the back and the queue otherwise only loses its
\* front (or everything, when the Task is dropped); an iteration on the
\* command branch handles the command at the front and no other, so all its
\* effects on the engine belong to that command; the commands still queued,
\* all of which entered later, have had no effect yet; and the events and
\* height updates serviced in between leave the queue as it is and have no
\* command effect.
C24_CommandsInOrder ==
  /\ [](QueueInOrder(queue))
  /\ [][ queue' # queue =>
           \/ RunCommand /\ queue' = Tail(queue)
           \/ /\ Len(queue') = Len(queue) + 1
              /\ SubSeq(queue', 1, Len(queue)) = queue
              /\ queue'[Len(queue')].id = Len(calls')
              /\ Len(calls') = Len(calls) + 1
           \/ taskPc' = "dropped" /\ queue' = <<>> ]_vars
  /\ [][ (RunCommand /\ queue # <<>>) =>
           /\ queue' = Tail(queue)
           /\ IsCommandEffect(effects')
           /\ \A i \in 1..Len(effects') :
                /\ effects'[i].op \in CommandOps
                /\ effects'[i].rid = Head(queue).id
                /\ effects'[i].kind = Head(queue).kind ]_vars
  /\ [][ (effects' # effects /\ IsCommandEffect(effects')) => RunCommand ]_vars
  /\ [][ (RunEvent \/ RunHeight) =>
           queue' = queue /\ ~IsCommandEffect(effects') ]_vars
  /\ [](IsCommandEffect(effects) =>
          \A i \in 1..Len(queue) : effects[1].rid < queue[i].id)

\* Two callers have a command each in the Task's hands: the request of the
\* first went to the engine while the broadcast of the second, submitted
\* by a caller that was told Ok, is still queued and has had no effect.
C24_Witness ==
  /\ IsCommandEffect(effects)
  /\ effects[Len(effects)].op = "send_request_msg"
  /\ effects[1].rid = 1
  /\ Len(queue) = 1
  /\ queue[1].id = 2
  /\ queue[1].kind \in BroadcastKinds
  /\ returned.id = 2
  /\ returned.result = "ok"
  /\ taskPc = "run"

====
